---- MODULE Spec2Model ----
(***************************************************************************)
(* Dockerfile generation in dockta: Generator.generate (the composer) and  *)
(* RGenerator (the R adapter).                                             *)
(*                                                                         *)
(* A text is a sequence of tokens; the token "nl" is the newline           *)
(* character, so that the lines of a text are computed by splitting it.    *)
(* Every other token is a fragment [k, sec, arg]: k is the leading keyword *)
(* of the fragment ("#" for comment text), sec names the block of          *)
(* generate that appended it, arg is the rest of the fragment as a         *)
(* sequence of strings.  A string whose characters matter (the value of an *)
(* environment variable) is a sequence of one-character strings.           *)
(***************************************************************************)
EXTENDS Integers, Sequences, FiniteSets, TLC

VARIABLES
    class,      \* class of the adapter instance: "Generator" (a derived class with canned answers) or "RGenerator"
    stub,       \* the answers of the overriding methods of a derived class
    environ,    \* this.environ, the SoftwareEnvironment
    relevant,   \* what applies() answers for the RGenerator instance
    date,       \* this.date, set by the RGenerator constructor
    folder,     \* the project directory: file name -> content
    call,       \* the last call made on the instance: method, arguments, directory before it, return value
    prev        \* the call before the last one

vars == <<class, stub, environ, relevant, date, folder, call, prev>>

----------------------------------------------------------------------------
(* Bounds *)

MaxList == 2        \* longest list answered by a canned adapter method
MaxNodes == 4       \* most packages in a forest given to the dependency walk

----------------------------------------------------------------------------
(* Texts *)

Tok(k, sec, arg) == [k |-> k, sec |-> sec, arg |-> arg]

NL == Tok("nl", "", <<>>)

Comment(sec, s) == Tok("#", sec, <<s>>)

\* the " \" that ends a continued line
BS(sec) == Tok("\\", sec, <<>>)

RECURSIVE Flatten(_)
Flatten(texts) ==
    IF texts = <<>> THEN <<>> ELSE Head(texts) \o Flatten(Tail(texts))

\* Array.prototype.join on texts
RECURSIVE Join(_, _)
Join(texts, sep) ==
    IF texts = <<>> THEN <<>>
    ELSE IF Len(texts) = 1 THEN texts[1]
    ELSE texts[1] \o sep \o Join(Tail(texts), sep)

\* a shell command: steps joined by " \\\n && "; a step is a sequence of words
Undefined == [defined |-> FALSE, steps |-> <<>>]
Cmd(steps) == [defined |-> TRUE, steps |-> steps]

\* JavaScript truthiness of a string | undefined
Truthy(c) == c.defined /\ c.steps # <<>>

\* `KW ${command}` where the command's steps are joined by " \\\n && "
Statement(kw, sec, steps) ==
    Join([i \in 1..Len(steps) |->
            <<Tok(IF i = 1 THEN kw ELSE "&&", sec, steps[i])>>],
         <<BS(sec), NL>>)

----------------------------------------------------------------------------
(* Records with optional fields: an absent field is not in the DOMAIN *)

HasField(r, f) == f \in DOMAIN r

----------------------------------------------------------------------------
(* The project directory, as the Doer primitives see it *)

\* every file name, in the order glob lists them
FileOrder == <<".DESCRIPTION", ".Dockerfile", "DESCRIPTION", "a.R", "cmd.R", "install.R", "main.R">>

RFiles == {"a.R", "cmd.R", "install.R", "main.R"}

UserContent(file) == <<Tok("user", "", <<file>>)>>

exists(fs, file) == file \in DOMAIN fs

write(fs, file, content) ==
    [f \in DOMAIN fs \cup {file} |-> IF f = file THEN content ELSE fs[f]]

\* glob('**/*.R')
glob(fs) == SelectSeq(FileOrder, LAMBDA f : f \in RFiles /\ exists(fs, f))

Includes(s, x) == \E i \in 1..Len(s) : s[i] = x

----------------------------------------------------------------------------
(* RGenerator: the R adapter *)

VERSION == "0.1.0"

\* constructor: this.date
Yesterday == "2018-11-01"

RGenerator_date(env) ==
    IF HasField(env, "datePublished") THEN env.datePublished ELSE Yesterday

RGenerator_applies == relevant

RGenerator_appliesRuntime == "R"

RGenerator_baseVersion == "16.04"

DQ == "\""

RGenerator_envVars ==
    << <<"TZ", <<"E", "t", "c", "/", "U", "T", "C">> >>,
       <<"R_LIBS_USER", <<"~", "/", "R">> >> >>

RGenerator_aptKeysCommand ==
    Cmd(<< <<"apt-key adv --keyserver keyserver.ubuntu.com --recv-keys 51716619E084DAB9">> >>)

\* Generator.baseVersionName: the lookup answers undefined for an unknown version
baseVersionName(base) ==
    LET version == IF Len(base) >= 3 THEN base[3] ELSE "undefined"
    IN  CASE version = "14.04" -> "trusty"
          [] version = "16.04" -> "xenial"
          [] version = "18.04" -> "bionic"
          [] OTHER -> "undefined"

RGenerator_aptRepos(base) ==
    << <<"deb https://mran.microsoft.com/snapshot/", date, "/bin/linux/ubuntu ", baseVersionName(base), "/">> >>

RECURSIVE find(_, _), findRequirements(_, _, _)
\* find without its test of the package's own runtimePlatform
find_anyPlatform(pkg, debpkgs) ==
    IF ~HasField(pkg, "softwareRequirements")
    THEN debpkgs
    ELSE findRequirements(pkg.softwareRequirements, 1, debpkgs)

\* the local function find of aptPackages; debpkgs is the array it pushes to
find(pkg, debpkgs) ==
    IF pkg.runtimePlatform # "R" \/ ~HasField(pkg, "softwareRequirements")
    THEN debpkgs
    ELSE findRequirements(pkg.softwareRequirements, 1, debpkgs)

\* the for loop of find, from its i-th iteration on
findRequirements(reqs, i, debpkgs) ==
    IF i > Len(reqs) THEN debpkgs
    ELSE LET subpkg == reqs[i]
         IN  IF subpkg.runtimePlatform = "deb"
             THEN findRequirements(reqs, i + 1,
                      Append(debpkgs, IF HasField(subpkg, "name") THEN subpkg.name ELSE ""))
             ELSE findRequirements(reqs, i + 1, find(subpkg, debpkgs))

RECURSIVE findAll(_, _, _)
\* for (let pkg of this.environ.softwareRequirements || []) find(pkg)
findAll(pkgs, i, debpkgs) ==
    IF i > Len(pkgs) THEN debpkgs
    ELSE findAll(pkgs, i + 1, find(pkgs[i], debpkgs))

TopLevel(env) ==
    IF HasField(env, "softwareRequirements") THEN env.softwareRequirements ELSE <<>>

RGenerator_aptPackages ==
    findAll(TopLevel(environ), 1, <<>>) \o <<"r-base">>

RGenerator_stencilaInstall ==
    Cmd(<< <<"apt-get update">>,
           <<"apt-get install -y  zlib1g-dev libxml2-dev pkg-config">>,
           <<"apt-get autoremove -y">>,
           <<"apt-get clean">>,
           <<"rm -rf /var/lib/apt/lists/*">>,
           <<"Rscript -e 'install.packages(\"devtools\")'">>,
           <<"Rscript -e 'source(\"https://bioconductor.org/biocLite.R\"); biocLite(\"graph\")'">>,
           <<"Rscript -e 'devtools::install_github(\"r-lib/pkgbuild\")'">>,
           <<"Rscript -e 'devtools::install_github(\"stencila/r\")'">> >>)

\* Doer.filterPackages: the top-level packages of a runtime platform
filterPackages(runtimePlatform) ==
    SelectSeq(TopLevel(environ), LAMBDA pkg : pkg.runtimePlatform = runtimePlatform)

Alnum == {"p", "q", "u", "n", "a", "m", "e", "d"}

\* String.prototype.replace(/[^a-zA-Z0-9]/, ''): the regular expression has no
\* g flag, so only the first match is removed
RECURSIVE removeFirstNonAlnum(_)
removeFirstNonAlnum(s) ==
    IF s = <<>> THEN <<>>
    ELSE IF Head(s) \notin Alnum THEN Tail(s)
    ELSE <<Head(s)>> \o removeFirstNonAlnum(Tail(s))

Unnamed == <<"u", "n", "n", "a", "m", "e", "d">>

\* the text of the generated .DESCRIPTION
Description(now) ==
    LET name == removeFirstNonAlnum(
                    IF HasField(environ, "name") /\ environ.name # <<>>
                    THEN environ.name ELSE Unnamed)
        rpkgs == filterPackages("R")
        pkgs == [i \in 1..Len(rpkgs) |->
                   IF HasField(rpkgs[i], "name") THEN rpkgs[i].name ELSE "undefined"]
    IN  <<Tok("Package:", "", name), NL,
          Tok("Version:", "", <<"1.0.0">>), NL,
          Tok("Date:", "", <<date>>), NL,
          Tok("Imports:", "", <<>>), NL>>
        \o Join([i \in 1..Len(pkgs) |-> <<Tok("  ", "", <<pkgs[i]>>)>>],
                <<Tok(",", "", <<>>), NL>>)
        \o <<NL,
             Tok("Description:", "", <<"Generated by Dockter ", now, ".">>), NL,
             Tok("  ", "", <<"To stop Dockter generating this file and start editing it yourself, rename it to \"DESCRIPTION\".">>), NL>>

\* installFiles looking for DESCRIPTION before install.R
RGenerator_installFiles_descriptionFirst(fs, now) ==
    IF exists(fs, "DESCRIPTION")
    THEN [ret |-> << <<"DESCRIPTION", "DESCRIPTION">> >>, folder |-> fs]
    ELSE IF exists(fs, "install.R")
    THEN [ret |-> << <<"install.R", "install.R">> >>, folder |-> fs]
    ELSE [ret |-> << <<".DESCRIPTION", "DESCRIPTION">> >>,
          folder |-> write(fs, ".DESCRIPTION", Description(now))]

\* a method that touches the directory answers [ret, folder]
RGenerator_installFiles(fs, now) ==
    IF exists(fs, "install.R")
    THEN [ret |-> << <<"install.R", "install.R">> >>, folder |-> fs]
    ELSE IF exists(fs, "DESCRIPTION")
    THEN [ret |-> << <<"DESCRIPTION", "DESCRIPTION">> >>, folder |-> fs]
    ELSE [ret |-> << <<".DESCRIPTION", "DESCRIPTION">> >>,
          folder |-> write(fs, ".DESCRIPTION", Description(now))]

MkdirStep == <<"mkdir ~/R">>
InstallScriptStep == <<"Rscript install.R">>
RemoteInstallStep ==
    <<"bash -c \"Rscript <(curl -sL https://unpkg.com/@stencila/dockter/src/install.R)\"">>

RGenerator_installCommand(fs) ==
    Cmd(<<MkdirStep>>
        \o (IF exists(fs, "install.R") THEN <<InstallScriptStep>>
            ELSE IF exists(fs, "DESCRIPTION") \/ exists(fs, ".DESCRIPTION")
            THEN <<RemoteInstallStep>>
            ELSE <<>>))

RGenerator_projectFiles(fs) ==
    LET rfiles == glob(fs)
    IN  [i \in 1..Len(rfiles) |-> <<rfiles[i], rfiles[i]>>]

RGenerator_runCommand(fs) ==
    LET rfiles == glob(fs)
    IN  IF Len(rfiles) = 0 THEN Undefined
        ELSE LET script == IF Includes(rfiles, "main.R") THEN "main.R"
                           ELSE IF Includes(rfiles, "cmd.R") THEN "cmd.R"
                           ELSE rfiles[1]
             IN  Cmd(<< <<"Rscript ", script>> >>)

----------------------------------------------------------------------------
(* Generator: the methods a derived class overrides.  An instance of class *)
(* "Generator" stands for any derived class: its overriding methods answer *)
(* what stub holds (the defaults of Generator itself are one such stub).   *)

applies == IF class = "RGenerator" THEN RGenerator_applies ELSE stub.applies

baseName == IF class = "RGenerator" THEN "ubuntu" ELSE stub.baseName

baseVersion == IF class = "RGenerator" THEN RGenerator_baseVersion ELSE stub.baseVersion

baseIdentifier ==
    IF baseVersion = "" THEN <<baseName>> ELSE <<baseName, ":", baseVersion>>

envVars(base) == IF class = "RGenerator" THEN RGenerator_envVars ELSE stub.envVars

aptKeysCommand(base) ==
    IF class = "RGenerator" THEN RGenerator_aptKeysCommand ELSE stub.aptKeysCommand

aptRepos(base) == IF class = "RGenerator" THEN RGenerator_aptRepos(base) ELSE stub.aptRepos

aptPackages(base) == IF class = "RGenerator" THEN RGenerator_aptPackages ELSE stub.aptPackages

stencilaInstall(base) ==
    IF class = "RGenerator" THEN RGenerator_stencilaInstall ELSE stub.stencilaInstall

installFiles(fs, base, now) ==
    IF class = "RGenerator" THEN RGenerator_installFiles(fs, now)
    ELSE [ret |-> stub.installFiles, folder |-> fs]

installCommand(fs, base) ==
    IF class = "RGenerator" THEN RGenerator_installCommand(fs) ELSE stub.installCommand

projectFiles(fs, base) ==
    IF class = "RGenerator" THEN RGenerator_projectFiles(fs) ELSE stub.projectFiles

runCommand(fs, base) ==
    IF class = "RGenerator" THEN RGenerator_runCommand(fs) ELSE stub.runCommand

----------------------------------------------------------------------------
(* Generator.generate, block by block *)

\* String.prototype.replace('"', '\\"'): a string pattern replaces the first
\* occurrence only
RECURSIVE replaceQuote(_)
replaceQuote(value) ==
    IF value = <<>> THEN <<>>
    ELSE IF Head(value) = DQ THEN <<"\\", DQ>> \o Tail(value)
    ELSE <<Head(value)>> \o replaceQuote(Tail(value))

\* `${key}="${value.replace('"', '\\"')}"`
envPair(pair) == <<pair[1], "=", DQ>> \o replaceQuote(pair[2]) \o <<DQ>>

\* the header comment, the base image comment and the FROM line
baseImageBlock(comments, now) ==
    (IF comments
     THEN <<Tok("#", "header", <<"Generated by Dockter ", VERSION, " at ", now>>), NL,
            Comment("header", "To stop Dockter generating this file and start editing it yourself,"), NL,
            Comment("header", "rename it to \"Dockerfile\"."), NL,
            NL, Comment("base", "This tells Docker which base image to use."), NL>>
     ELSE <<>>)
    \o <<Tok("FROM", "base", baseIdentifier), NL>>

envBlock(comments, base) ==
    LET vars_ == envVars(base)
    IN  IF Len(vars_) # 0
        THEN (IF comments
              THEN <<NL, Comment("env", "This section sets environment variables within the image.")>>
              ELSE <<>>)
             \o <<NL>>
             \o Join([i \in 1..Len(vars_) |->
                        <<Tok(IF i = 1 THEN "ENV" ELSE "    ", "env", envPair(vars_[i]))>>],
                     <<BS("env"), NL>>)
             \o <<NL>>
        ELSE <<>>

BootstrapTools ==
    <<"apt-transport-https", "ca-certificates", "curl", "software-properties-common">>

\* a list of words, one per continued line, after an opening statement
Continued(sec, words) ==
    Flatten([i \in 1..Len(words) |-> <<BS(sec), NL, Tok("      ", sec, <<words[i]>>)>>])

\* the bootstrap emitted for repositories only, not for a key command alone
aptReposBlock_reposOnly(comments, base) ==
    LET repos == aptRepos(base)
        keys == aptKeysCommand(base)
    IN  (IF Len(repos) # 0
         THEN (IF comments
               THEN <<NL, Comment("bootstrap", "This section installs system packages needed to add extra system repositories.")>>
               ELSE <<>>)
              \o <<NL>>
              \o Statement("RUN", "bootstrap",
                           << <<"apt-get update">>,
                              <<"DEBIAN_FRONTEND=noninteractive apt-get install -y">> >>)
              \o Continued("bootstrap", BootstrapTools)
              \o <<NL>>
         ELSE <<>>)
        \o
        (IF Len(repos) # 0
         THEN (IF comments
               THEN <<NL, Comment("repos", "This section adds system repositories required to install extra system packages.")>>
               ELSE <<>>)
              \o <<NL>>
              \o Statement("RUN", "repos",
                           [i \in 1..Len(repos) |->
                              <<"apt-add-repository ", DQ>> \o repos[i] \o <<DQ>>])
              \o <<NL>>
         ELSE <<>>)
        \o
        (IF Truthy(keys)
         THEN Statement("RUN", "keys", keys.steps) \o <<NL>>
         ELSE <<>>)

aptReposBlock(comments, base) ==
    LET repos == aptRepos(base)
        keys == aptKeysCommand(base)
    IN  (IF Len(repos) # 0 \/ Truthy(keys)
         THEN (IF comments
               THEN <<NL, Comment("bootstrap", "This section installs system packages needed to add extra system repositories.")>>
               ELSE <<>>)
              \o <<NL>>
              \o Statement("RUN", "bootstrap",
                           << <<"apt-get update">>,
                              <<"DEBIAN_FRONTEND=noninteractive apt-get install -y">> >>)
              \o Continued("bootstrap", BootstrapTools)
              \o <<NL>>
         ELSE <<>>)
        \o
        (IF Len(repos) # 0
         THEN (IF comments
               THEN <<NL, Comment("repos", "This section adds system repositories required to install extra system packages.")>>
               ELSE <<>>)
              \o <<NL>>
              \o Statement("RUN", "repos",
                           [i \in 1..Len(repos) |->
                              <<"apt-add-repository ", DQ>> \o repos[i] \o <<DQ>>])
              \o <<NL>>
         ELSE <<>>)
        \o
        (IF Truthy(keys)
         THEN Statement("RUN", "keys", keys.steps) \o <<NL>>
         ELSE <<>>)

aptPackagesBlock(comments, base) ==
    LET pkgs == aptPackages(base)
    IN  IF Len(pkgs) # 0
        THEN (IF comments
              THEN <<NL, Comment("packages", "This section installs system packages required for your project"),
                     NL, Comment("packages", "If you need extra system packages add them here.")>>
              ELSE <<>>)
             \o <<NL>>
             \o Statement("RUN", "packages",
                          << <<"apt-get update">>,
                             <<"DEBIAN_FRONTEND=noninteractive apt-get install -y">> >>)
             \o Continued("packages", pkgs)
             \o <<BS("packages"), NL>>
             \o Statement("&&", "packages",
                          << <<"apt-get autoremove -y">>,
                             <<"apt-get clean">>,
                             <<"rm -rf /var/lib/apt/lists/*">> >>)
             \o <<NL>>
        ELSE <<>>

\* the comment of the section not followed by a newline
stencilaBlock_noNewline(comments, base) ==
    LET cmd == stencilaInstall(base)
    IN  IF Truthy(cmd)
        THEN (IF comments
              THEN <<NL, Comment("stencila", "This section runs commands to install Stencila execution hosts.")>>
              ELSE <<NL>>)
             \o Statement("RUN", "stencila", cmd.steps) \o <<NL>>
        ELSE <<>>

stencilaBlock(comments, base) ==
    LET cmd == stencilaInstall(base)
    IN  IF Truthy(cmd)
        THEN (IF comments
              THEN <<NL, Comment("stencila", "This section runs commands to install Stencila execution hosts.")>>
              ELSE <<>>)
             \o <<NL>> \o Statement("RUN", "stencila", cmd.steps) \o <<NL>>
        ELSE <<>>

userBlock(comments) ==
    (IF comments
     THEN <<NL, Comment("user", "It's good practice to run Docker images as a non-root user."),
            NL, Comment("user", "This section creates a new user, sets it as the user for the image, and it's"),
            NL, Comment("user", "home directory as the working directory.")>>
     ELSE <<>>)
    \o <<NL, Tok("RUN", "user", <<"useradd --create-home --uid 1001 -s /bin/bash dockteruser">>),
         NL, Tok("USER", "user", <<"dockteruser">>),
         NL, Tok("WORKDIR", "user", <<"/home/dockteruser">>),
         NL>>

Copies(sec, files) ==
    Join([i \in 1..Len(files) |-> <<Tok("COPY", sec, <<files[i][1], files[i][2]>>)>>], <<NL>>)

\* installCommand called before installFiles
userCalls_commandFirst(fs, base, now) ==
    LET command == installCommand(fs, base)
        files == installFiles(fs, base, now)
    IN  [installFiles   |-> files.ret,
         installCommand |-> command,
         projectFiles   |-> projectFiles(files.folder, base),
         runCommand     |-> runCommand(files.folder, base),
         folder         |-> files.folder]

\* the four calls that follow the privilege drop, in the order generate makes them
userCalls(fs, base, now) ==
    LET files == installFiles(fs, base, now)
    IN  [installFiles   |-> files.ret,
         installCommand |-> installCommand(files.folder, base),
         projectFiles   |-> projectFiles(files.folder, base),
         runCommand     |-> runCommand(files.folder, base),
         folder         |-> files.folder]

installBlock(comments, answers) ==
    (IF Truthy(answers.installCommand)
     THEN (IF comments
           THEN <<NL, Comment("marker", "This is a special comment to tell Dockter to manage the build from here on")>>
           ELSE <<>>)
          \o <<NL, Tok("# dockter", "marker", <<>>), NL>>
     ELSE <<>>)
    \o
    (IF Len(answers.installFiles) # 0
     THEN (IF comments
           THEN <<NL, Comment("installFiles", "This section copies package requirement files into the image")>>
           ELSE <<>>)
          \o <<NL>> \o Copies("installFiles", answers.installFiles) \o <<NL>>
     ELSE <<>>)
    \o
    (IF Truthy(answers.installCommand)
     THEN (IF comments
           THEN <<NL, Comment("install", "This section runs commands to install the packages specified in the requirement file/s")>>
           ELSE <<>>)
          \o <<NL>> \o Statement("RUN", "install", answers.installCommand.steps) \o <<NL>>
     ELSE <<>>)

projectBlock(comments, answers) ==
    (IF Len(answers.projectFiles) # 0
     THEN (IF comments
           THEN <<NL, Comment("projectFiles", "This section copies your project's files into the image")>>
           ELSE <<>>)
          \o <<NL>> \o Copies("projectFiles", answers.projectFiles) \o <<NL>>
     ELSE <<>>)
    \o
    (IF Truthy(answers.runCommand)
     THEN (IF comments
           THEN <<NL, Comment("cmd", "This tells Docker the default command to run when the container is started")>>
           ELSE <<>>)
          \o <<NL>> \o Statement("CMD", "cmd", answers.runCommand.steps) \o <<NL>>
     ELSE <<>>)

\* the privilege drop emitted before the Stencila install
generateRest_earlyDrop(fs, comments, now, head) ==
    LET base == baseIdentifier
        answers == userCalls(fs, base, now)
        dockerfile == head
                      \o envBlock(comments, base)
                      \o aptReposBlock(comments, base)
                      \o aptPackagesBlock(comments, base)
                      \o userBlock(comments)
                      \o stencilaBlock(comments, base)
                      \o installBlock(comments, answers)
                      \o projectBlock(comments, answers)
    IN  [ret |-> dockerfile, folder |-> write(answers.folder, ".Dockerfile", dockerfile)]

\* the text returned without being written
generateRest_noWrite(fs, comments, now, head) ==
    LET base == baseIdentifier
        answers == userCalls(fs, base, now)
        dockerfile == head
                      \o envBlock(comments, base)
                      \o aptReposBlock(comments, base)
                      \o aptPackagesBlock(comments, base)
                      \o stencilaBlock(comments, base)
                      \o userBlock(comments)
                      \o installBlock(comments, answers)
                      \o projectBlock(comments, answers)
    IN  [ret |-> dockerfile, folder |-> answers.folder]

\* generate from the call of envVars to the end
generateRest(fs, comments, now, head) ==
    LET base == baseIdentifier
        answers == userCalls(fs, base, now)
        dockerfile == head
                      \o envBlock(comments, base)
                      \o aptReposBlock(comments, base)
                      \o aptPackagesBlock(comments, base)
                      \o stencilaBlock(comments, base)
                      \o userBlock(comments)
                      \o installBlock(comments, answers)
                      \o projectBlock(comments, answers)
    IN  [ret |-> dockerfile, folder |-> write(answers.folder, ".Dockerfile", dockerfile)]

\* generate without its early return
generate_noReturn(fs, comments, now) ==
    generateRest(fs, comments, now, baseImageBlock(comments, now))

generate(fs, comments, now) ==
    LET dockerfile == baseImageBlock(comments, now)
    IN  IF ~applies THEN [ret |-> dockerfile, folder |-> fs]
        ELSE generateRest(fs, comments, now, dockerfile)

----------------------------------------------------------------------------
(* Inputs *)

Times == {"2018-11-02T10:00:00.000Z", "2018-11-02T10:00:01.000Z"}

EmptyFolder == [f \in {} |-> <<>>]

FolderOf(files) == [f \in files |-> UserContent(f)]

NoCall == [op |-> "none", comments |-> FALSE, pre |-> EmptyFolder, ret |-> <<>>]

NoPrev == [op |-> "none", comments |-> FALSE, ret |-> <<>>]

\* the i-th element of the list answered by a canned method
KeyAt(i) == <<"K1", "K2", "K3", "K4">>[i]
EnvVarAt(i) == <<KeyAt(i), Flatten([j \in 1..i |-> <<"v", DQ>>])>>
RepoAt(i) == <<"deb https://example.org/repo", ToString(i)>>
PackageAt(i) == <<"libxml2-dev", "curl", "git", "make">>[i]
InstallFileAt(i) == <<<<"requirements.txt", "requirements.txt">>, <<"setup.py", "setup.py">>,
                      <<"a.cfg", "a.cfg">>, <<"b.cfg", "b.cfg">>>>[i]
ProjectFileAt(i) == <<<<"main.py", "main.py">>, <<"lib.py", "lib.py">>,
                      <<"c.py", "c.py">>, <<"d.py", "d.py">>>>[i]

\* a method answering string | undefined: a command when present, otherwise
\* undefined or ''
Optional(present, blank, steps) ==
    IF present THEN Cmd(steps) ELSE IF blank THEN Cmd(<<>>) ELSE Undefined

\* the indexes of a list answer: n elements when present, none otherwise
Indexes(present, n) == IF present THEN 1..n ELSE {}

Methods ==
    {"envVars", "aptKeysCommand", "aptRepos", "aptPackages", "stencilaInstall",
     "installFiles", "installCommand", "projectFiles", "runCommand"}

\* the derived class whose methods in present answer something: n elements for
\* a list, a command for a string; the others answer nothing
StubOf(app, present, n, blank) ==
    [applies         |-> app,
     baseName        |-> "ubuntu",
     baseVersion     |-> IF blank THEN "" ELSE "18.04",
     envVars         |-> [i \in Indexes("envVars" \in present, n) |-> EnvVarAt(i)],
     aptKeysCommand  |-> Optional("aptKeysCommand" \in present, blank, << <<"apt-key add key.asc">> >>),
     aptRepos        |-> [i \in Indexes("aptRepos" \in present, n) |-> RepoAt(i)],
     aptPackages     |-> [i \in Indexes("aptPackages" \in present, n) |-> PackageAt(i)],
     stencilaInstall |-> Optional("stencilaInstall" \in present, blank, << <<"pip install stencila">> >>),
     installFiles    |-> [i \in Indexes("installFiles" \in present, n) |-> InstallFileAt(i)],
     installCommand  |-> Optional("installCommand" \in present, blank,
                                  << <<"pip install">>, <<"--requirement requirements.txt">> >>),
     projectFiles    |-> [i \in Indexes("projectFiles" \in present, n) |-> ProjectFileAt(i)],
     runCommand      |-> Optional("runCommand" \in present, blank, << <<"python main.py">> >>)]

Stubs ==
    {StubOf(app, present, n, blank) :
        app \in BOOLEAN, present \in SUBSET Methods, n \in 1..MaxList, blank \in BOOLEAN}

\* the defaults of Generator itself
Defaults ==
    [applies |-> FALSE, baseName |-> "ubuntu", baseVersion |-> "18.04",
     envVars |-> <<>>, aptKeysCommand |-> Undefined, aptRepos |-> <<>>,
     aptPackages |-> <<>>, stencilaInstall |-> Undefined, installFiles |-> <<>>,
     installCommand |-> Undefined, projectFiles |-> <<>>, runCommand |-> Undefined]

PkgLabels ==
    {[name |-> "ggplot2", runtimePlatform |-> "R"],
     [name |-> "numpy", runtimePlatform |-> "py"],
     [name |-> "libxml2-dev", runtimePlatform |-> "deb"],
     [runtimePlatform |-> "deb"]}

Node(label, children) ==
    IF children = <<>> THEN label
    ELSE [f \in DOMAIN label \cup {"softwareRequirements"} |->
            IF f = "softwareRequirements" THEN children ELSE label[f]]

RECURSIVE Forests(_)
\* the forests of exactly n packages
Forests(n) ==
    IF n = 0 THEN {<<>>}
    ELSE UNION {{<<Node(l, c)>> \o f : l \in PkgLabels, c \in Forests(k - 1), f \in Forests(n - k)} :
                k \in 1..n}

Environ(forest) ==
    IF forest = <<>> THEN [name |-> <<>>]
    ELSE [name |-> <<>>, softwareRequirements |-> forest]

\* the environments of the directory scenarios: nothing set, or a name, a date and one R package
SmallEnvirons ==
    {[name |-> <<>>],
     [name |-> <<"p", "-", "q", "-">>, datePublished |-> "2018-10-05",
      softwareRequirements |-> <<[name |-> "ggplot2", runtimePlatform |-> "R"]>>]}

UserFiles == {"DESCRIPTION", ".DESCRIPTION", "a.R", "cmd.R", "install.R", "main.R"}

----------------------------------------------------------------------------
(* Initial states: a constructed instance on which nothing was called yet *)

\* an instance of any derived class, on an empty directory
InitGen ==
    /\ class = "Generator"
    /\ stub \in Stubs
    /\ environ = [name |-> <<>>]
    /\ relevant = FALSE
    /\ date = Yesterday
    /\ folder = EmptyFolder
    /\ call = NoCall
    /\ prev = NoPrev

\* an RGenerator on a project directory
Init ==
    /\ class = "RGenerator"
    /\ stub = Defaults
    /\ environ \in SmallEnvirons
    /\ relevant \in BOOLEAN
    /\ date = RGenerator_date(environ)
    /\ folder \in {FolderOf(files) : files \in SUBSET UserFiles}
    /\ call = NoCall
    /\ prev = NoPrev

\* an RGenerator on a forest of packages
InitWalk ==
    /\ class = "RGenerator"
    /\ stub = Defaults
    /\ environ \in {Environ(f) : f \in UNION {Forests(n) : n \in 0..MaxNodes}}
    /\ relevant = TRUE
    /\ date = RGenerator_date(environ)
    /\ folder = EmptyFolder
    /\ call = NoCall
    /\ prev = NoPrev

----------------------------------------------------------------------------
(* Calls *)

Called(op, comments, ret, fs) ==
    /\ call' = [op |-> op, comments |-> comments, pre |-> folder, ret |-> ret]
    /\ prev' = [op |-> call.op, comments |-> call.comments, ret |-> call.ret]
    /\ folder' = fs
    /\ UNCHANGED <<class, stub, environ, relevant, date>>

Generate(comments, now) ==
    LET r == generate(folder, comments, now)
    IN  Called("generate", comments, r.ret, r.folder)

InstallFiles(now) ==
    LET r == installFiles(folder, baseIdentifier, now)
    IN  Called("installFiles", FALSE, r.ret, r.folder)

InstallCommand ==
    Called("installCommand", FALSE, installCommand(folder, baseIdentifier), folder)

AptPackages ==
    Called("aptPackages", FALSE, aptPackages(baseIdentifier), folder)

NextGen == \E comments \in BOOLEAN, now \in Times : Generate(comments, now)

Next ==
    \/ \E comments \in BOOLEAN, now \in Times : Generate(comments, now)
    \/ \E now \in Times : InstallFiles(now)
    \/ InstallCommand

NextWalk == AptPackages

\* any derived class, generate called on it
SpecGen == InitGen /\ [][NextGen]_vars

\* an RGenerator and its project directory
Spec == Init /\ [][Next]_vars

\* the dependency walk of an RGenerator
SpecWalk == InitWalk /\ [][NextWalk]_vars

----------------------------------------------------------------------------
(* Reading a generated text *)

\* the text split at its newlines
Lines(text) ==
    LET newlines == SelectSeq([i \in 1..Len(text) |-> i], LAMBDA i : text[i] = NL)
        cuts == <<0>> \o newlines \o <<Len(text) + 1>>
    IN  [n \in 1..(Len(cuts) - 1) |-> SubSeq(text, cuts[n] + 1, cuts[n + 1] - 1)]

\* a line of comment text; the `# dockter` marker is not one
IsCommentLine(line) == line # <<>> /\ line[1].k = "#"

\* the non-blank, non-comment lines, in order
Instructions(text) ==
    SelectSeq(Lines(text), LAMBDA line : line # <<>> /\ ~IsCommentLine(line))

\* the fragments of a text, newlines dropped
Fragments(text) == SelectSeq(text, LAMBDA t : t # NL)

\* section sec put something (comment or instruction) into the text
HasAny(text, sec) == \E i \in 1..Len(text) : text[i].sec = sec

\* section sec put an instruction into the text
HasInstruction(text, sec) ==
    \E i \in 1..Len(text) : text[i].sec = sec /\ text[i].k # "#"

Count(text, k, sec) == Cardinality({i \in 1..Len(text) : text[i].k = k /\ text[i].sec = sec})

CountKeyword(text, k) == Cardinality({i \in 1..Len(text) : text[i].k = k})

FromLine == <<Tok("FROM", "base", baseIdentifier)>>

\* the fixed order of the sections
SectionOrder ==
    <<"header", "base", "env", "bootstrap", "repos", "keys", "packages", "stencila",
      "user", "marker", "installFiles", "install", "projectFiles", "cmd">>

Rank(sec) == CHOOSE i \in 1..Len(SectionOrder) : SectionOrder[i] = sec

Generated == call.op = "generate"

----------------------------------------------------------------------------
(* C1 *)

\* C1: when applies() is false, generate returns the FROM line and nothing but
\* comment text before it, whatever the other methods of the adapter answer.
C1_BaseImageOnly ==
    (Generated /\ ~applies) =>
        /\ Instructions(call.ret) = <<FromLine>>
        /\ Len(call.ret) >= 2
        /\ SubSeq(call.ret, Len(call.ret) - 1, Len(call.ret)) = FromLine \o <<NL>>
        /\ ~call.comments => call.ret = FromLine \o <<NL>>
        /\ \A i \in 1..Len(call.ret) : call.ret[i].sec \in {"", "header", "base"}

C1_Witness ==
    /\ Generated /\ ~applies /\ call.comments
    /\ stub.envVars # <<>> /\ stub.aptRepos # <<>> /\ stub.aptPackages # <<>>
    /\ stub.installFiles # <<>> /\ stub.projectFiles # <<>>
    /\ Truthy(stub.aptKeysCommand) /\ Truthy(stub.stencilaInstall)
    /\ Truthy(stub.installCommand) /\ Truthy(stub.runCommand)

----------------------------------------------------------------------------
(* C2 *)

\* C2: when applies() is true, whatever is emitted appears in the fixed order
\* of the sections, and the privilege drop comes after every RUN of a root
\* section and before the marker, every COPY, the install RUN and the CMD.
C2_SectionOrder ==
    (Generated /\ applies) =>
        LET f == Fragments(call.ret)
            user == CHOOSE i \in 1..Len(f) : f[i].k = "WORKDIR"
        IN  /\ \A i, j \in 1..Len(f) : i < j => Rank(f[i].sec) <= Rank(f[j].sec)
            /\ \A i \in 1..Len(f) :
                 /\ f[i].k \in {"FROM", "ENV"} => i < user
                 /\ f[i].k \in {"COPY", "CMD", "# dockter"} => user < i
                 /\ f[i].sec \in {"bootstrap", "repos", "keys", "packages", "stencila"} => i < user
                 /\ f[i].sec \in {"install"} => user < i

C2_Witness ==
    /\ Generated /\ applies /\ class = "Generator"
    /\ stub.envVars # <<>> /\ stub.aptRepos # <<>> /\ stub.aptPackages # <<>>
    /\ stub.installFiles # <<>> /\ stub.projectFiles # <<>>
    /\ Truthy(stub.aptKeysCommand) /\ Truthy(stub.stencilaInstall)
    /\ Truthy(stub.installCommand) /\ Truthy(stub.runCommand)
    /\ CountKeyword(call.ret, "COPY") >= 4

----------------------------------------------------------------------------
(* C3 *)

\* does generate emit section sec for these answers
Expected(sec) ==
    CASE sec = "env"          -> stub.envVars # <<>>
      [] sec = "bootstrap"    -> stub.aptRepos # <<>> \/ Truthy(stub.aptKeysCommand)
      [] sec = "repos"        -> stub.aptRepos # <<>>
      [] sec = "keys"         -> Truthy(stub.aptKeysCommand)
      [] sec = "packages"     -> stub.aptPackages # <<>>
      [] sec = "stencila"     -> Truthy(stub.stencilaInstall)
      [] sec = "marker"       -> Truthy(stub.installCommand)
      [] sec = "installFiles" -> stub.installFiles # <<>>
      [] sec = "install"      -> Truthy(stub.installCommand)
      [] sec = "projectFiles" -> stub.projectFiles # <<>>
      [] sec = "cmd"          -> Truthy(stub.runCommand)

OptionalSections ==
    {"env", "bootstrap", "repos", "keys", "packages", "stencila", "marker",
     "installFiles", "install", "projectFiles", "cmd"}

\* C3: when applies() is true, an optional section is emitted iff its content
\* is non-empty, an absent section emits no comment either, and the FROM line
\* and the privilege drop are emitted exactly once.
C3_EmittedIffPresent ==
    (Generated /\ applies /\ class = "Generator") =>
        /\ \A sec \in OptionalSections :
             /\ HasInstruction(call.ret, sec) <=> Expected(sec)
             /\ HasAny(call.ret, sec) => Expected(sec)
        /\ CountKeyword(call.ret, "FROM") = 1
        /\ Count(call.ret, "RUN", "user") = 1
        /\ CountKeyword(call.ret, "USER") = 1
        /\ CountKeyword(call.ret, "WORKDIR") = 1
        /\ CountKeyword(call.ret, "# dockter") = (IF Truthy(stub.installCommand) THEN 1 ELSE 0)
        /\ CountKeyword(call.ret, "ENV") = (IF stub.envVars # <<>> THEN 1 ELSE 0)
        /\ CountKeyword(call.ret, "CMD") = (IF Truthy(stub.runCommand) THEN 1 ELSE 0)
        /\ CountKeyword(call.ret, "COPY") = Len(stub.installFiles) + Len(stub.projectFiles)

\* the bootstrap is there for the key command alone, and the empty string counts as absent
C3_Witness ==
    /\ Generated /\ applies /\ class = "Generator" /\ call.comments
    /\ stub.aptRepos = <<>> /\ Truthy(stub.aptKeysCommand)
    /\ stub.installCommand = Cmd(<<>>) /\ stub.installFiles # <<>>
    /\ HasInstruction(call.ret, "bootstrap") /\ ~HasAny(call.ret, "marker")

----------------------------------------------------------------------------
(* C4 *)

\* the value of an emitted KEY="value", between its quotes
EmittedValue(t) == SubSeq(t.arg, 4, Len(t.arg) - 1)

EveryQuoteEscaped(v) == \A i \in 1..Len(v) : v[i] = DQ => (i > 1 /\ v[i - 1] = "\\")

\* C4: every double quote of an environment variable's value is emitted
\* preceded by a backslash.
C4_QuotesEscaped ==
    (Generated /\ applies) =>
        \A i \in 1..Len(call.ret) :
            call.ret[i].sec = "env" /\ call.ret[i].k \in {"ENV", "    "}
                => EveryQuoteEscaped(EmittedValue(call.ret[i]))

----------------------------------------------------------------------------
(* C5 *)

Children(pkg) ==
    IF HasField(pkg, "softwareRequirements") THEN pkg.softwareRequirements ELSE <<>>

RECURSIVE PathsOf(_)
\* the packages of a forest, each named by its path of child indexes
PathsOf(forest) ==
    UNION {{<<i>>} \cup {<<i>> \o p : p \in PathsOf(Children(forest[i]))} : i \in 1..Len(forest)}

RECURSIVE NodeAt(_, _)
NodeAt(forest, p) ==
    IF Len(p) = 1 THEN forest[p[1]] ELSE NodeAt(Children(forest[p[1]]), Tail(p))

\* a deb package below a chain of R packages that starts at the top level
UnderRChain(forest, p) ==
    /\ Len(p) >= 2
    /\ NodeAt(forest, p).runtimePlatform = "deb"
    /\ \A n \in 1..(Len(p) - 1) : NodeAt(forest, SubSeq(p, 1, n)).runtimePlatform = "R"

\* depth-first order of two paths none of which is a prefix of the other
Before(p, q) ==
    \E i \in 1..Len(p) :
        /\ i <= Len(q)
        /\ p[i] < q[i]
        /\ \A j \in 1..(i - 1) : p[j] = q[j]

NameOf(pkg) == IF HasField(pkg, "name") THEN pkg.name ELSE ""

\* C5: aptPackages answers the names of the deb packages under a chain of R
\* packages, in depth-first order, duplicates kept, then r-base.
C5_DependencyWalk ==
    call.op = "aptPackages" =>
        LET forest == TopLevel(environ)
            found == {p \in PathsOf(forest) : UnderRChain(forest, p)}
        IN  /\ Len(call.ret) = Cardinality(found) + 1
            /\ call.ret[Len(call.ret)] = "r-base"
            /\ \A p \in found :
                 call.ret[1 + Cardinality({q \in found : Before(q, p)})] = NameOf(NodeAt(forest, p))

\* a forest where an R package has a deb child and an R child with a deb child
\* of its own
C5_Witness ==
    /\ call.op = "aptPackages"
    /\ LET forest == TopLevel(environ)
       IN  /\ \E p \in PathsOf(forest) : UnderRChain(forest, p) /\ Len(p) = 2
           /\ \E p \in PathsOf(forest) : UnderRChain(forest, p) /\ Len(p) = 3
    /\ Len(call.ret) = 3

----------------------------------------------------------------------------
(* C6 *)

----------------------------------------------------------------------------
(* C7 *)

Persisted == exists(folder, ".Dockerfile") /\ folder[".Dockerfile"] = call.ret

\* C7 as claimed: after every generate, .Dockerfile holds the returned text.
C7_AlwaysPersisted == Generated => Persisted

\* C7 as amended: after a generate with applies() true, .Dockerfile holds the
\* returned text; with applies() false generate writes nothing.
C7_PersistedWhenApplies ==
    Generated => IF applies THEN Persisted ELSE folder = call.pre

C7_Witness ==
    /\ Generated /\ applies /\ Persisted
    /\ exists(call.pre, ".Dockerfile") /\ call.pre[".Dockerfile"] # call.ret

----------------------------------------------------------------------------
(* C8 *)

\* C8: installFiles answers install.R if it exists, else DESCRIPTION if it
\* exists, and only otherwise writes .DESCRIPTION and answers it; in the first
\* two cases it writes nothing.
C8_InstallFilesPrecedence ==
    (call.op = "installFiles" /\ class = "RGenerator") =>
        IF exists(call.pre, "install.R")
        THEN call.ret = << <<"install.R", "install.R">> >> /\ folder = call.pre
        ELSE IF exists(call.pre, "DESCRIPTION")
        THEN call.ret = << <<"DESCRIPTION", "DESCRIPTION">> >> /\ folder = call.pre
        ELSE /\ call.ret = << <<".DESCRIPTION", "DESCRIPTION">> >>
             /\ \E now \in Times : folder = write(call.pre, ".DESCRIPTION", Description(now))

\* install.R wins over a DESCRIPTION and a .DESCRIPTION lying next to it
C8_Witness ==
    /\ call.op = "installFiles"
    /\ exists(call.pre, "install.R") /\ exists(call.pre, "DESCRIPTION")
    /\ exists(call.pre, ".DESCRIPTION")
    /\ call.ret = << <<"install.R", "install.R">> >>

----------------------------------------------------------------------------
(* C9 *)

NoInstallFiles(fs) ==
    ~exists(fs, "install.R") /\ ~exists(fs, "DESCRIPTION") /\ ~exists(fs, ".DESCRIPTION")

\* C9: on a directory without install.R, DESCRIPTION and .DESCRIPTION, the
\* install command has the step that runs the remote install script, in the
\* text of generate and in the answer of installCommand called on its own.
C9_RemoteInstallFallback ==
    /\ (Generated /\ applies /\ NoInstallFiles(call.pre)) =>
           \E i \in 1..Len(call.ret) :
               call.ret[i].sec = "install" /\ call.ret[i].arg = RemoteInstallStep
    /\ (call.op = "installCommand" /\ NoInstallFiles(call.pre)) =>
           Includes(call.ret.steps, RemoteInstallStep)

----------------------------------------------------------------------------
(* C10 *)

\* C10: from the same directory, generate with comments and generate without
\* return the same instruction lines, whatever the timestamps.
C10_CommentsOnly ==
    Generated =>
        \A now \in Times :
            Instructions(call.ret) = Instructions(generate(call.pre, ~call.comments, now).ret)

C10_Witness ==
    /\ Generated /\ call.comments /\ applies /\ class = "Generator"
    /\ stub.envVars # <<>> /\ stub.aptRepos # <<>> /\ stub.aptPackages # <<>>
    /\ stub.installFiles # <<>> /\ stub.projectFiles # <<>>
    /\ Truthy(stub.aptKeysCommand) /\ Truthy(stub.stencilaInstall)
    /\ Truthy(stub.installCommand) /\ Truthy(stub.runCommand)
    /\ Len(Lines(call.ret)) > Len(Instructions(call.ret)) + 10

====
